---- MODULE Spec2Model ----
(***************************************************************************)
(* Klarion sticky notes (src/main.py): the NoteManager store, its JSON     *)
(* persistence, and the StickyNote windows that subscribe to its signals.  *)
(*                                                                         *)
(* Modelling conventions                                                   *)
(*  - Qt signal delivery is synchronous (direct connections on one         *)
(*    thread), so every user action or API call, together with the slots   *)
(*    it triggers, is one atomic action of the model.                      *)
(*  - Note ids are opaque; they are modelled as positive integers.  Ids    *)
(*    read from the file lie in FileIds; uuid.uuid4() is modelled as a     *)
(*    generator of ids never seen before (the ids above FileIds).          *)
(*  - time.time() returns any value of Times (the wall clock need not be   *)
(*    monotonic).                                                          *)
(*  - A JSON document is a record: its kind, the value under "notes", the  *)
(*    value under "settings" and the legacy top-level fields.              *)
(***************************************************************************)
EXTENDS Integers, Sequences, FiniteSets, TLC

VARIABLES
    pc,             \* "start" | "ready" | "running" | "crashed" | "exited"
    file,           \* the persisted document notes_data.json (app data dir)
    local_file,     \* notes_data.json of the old layout (install dir or cwd)
    notes_type,     \* Python type of self.notes_data: "list", or "int" or
                    \* "null" after loading a document of the wrong shape
    notes_data,     \* self.notes_data when it is a list
    settings,       \* self.settings (a dict: function on a subset of keys)
    windows,        \* StickyNote.active_windows, in signal connection order
    uuid_count,     \* number of uuid4() calls made so far
    failures_left,  \* file writes that may still fail (environment budget)
    setting_calls_left, \* update_setting calls still explored (model budget)
    trace,          \* history: the methods, writes and signals of the last
                    \* action, in order; trace[1] is its entry point
    last_write,     \* history: outcome of the last save_data call
    reentrant,      \* history: windows that called a store write from a slot
    delivered       \* history: what the slots saw at each signal delivery of
                    \* the last action

vars == <<pc, file, local_file, notes_type, notes_data, settings, windows, uuid_count,
          failures_left, setting_calls_left, trace, last_write, reentrant,
          delivered>>

(***************************************************************************)
(* Bounds                                                                  *)
(***************************************************************************)
MaxNotes == 3
MaxFileNotes == 2
MaxWindows == 2
MaxUuid == 2
MaxWriteFailures == 1
MaxSettingCalls == 1
MaxThemeCalls == 6

FileIds == {1, 2}
UuidBase == CHOOSE m \in FileIds : \A i \in FileIds : i <= m
UuidIds == (UuidBase + 1)..(UuidBase + MaxUuid)
Ids == FileIds \cup UuidIds
Contents == {"", "a"}
Times == {1}

(***************************************************************************)
(* Program constants                                                       *)
(***************************************************************************)
DefaultOpacity == 240
NumThemes == 5
SliderMin == 50
SliderMax == 255
CurveBase == 50
CurveSpan == 205

SettingKeys == {"pinned", "opacity", "theme_index"}
OpacityValues == {SliderMin, DefaultOpacity}
ThemeValues == 0..(NumThemes - 1)

DefaultSettings ==
    [pinned |-> FALSE, opacity |-> DefaultOpacity, theme_index |-> 0]

Note(id, content, timestamp) ==
    [id |-> id, content |-> content, timestamp |-> timestamp]

NoteIds(notes) == {notes[i].id : i \in DOMAIN notes}

\* uuid.uuid4() after `count` earlier calls: an id never seen before.
uuid4(count) == UuidBase + count + 1

\* dict.get(key, default)
Get(d, key, default) == IF key \in DOMAIN d THEN d[key] ELSE default

\* d[key] = value on a dict
SetItem(d, key, value) ==
    [k \in DOMAIN d \cup {key} |-> IF k = key THEN value ELSE d[k]]

EmptyDict == [k \in {} |-> 0]

(***************************************************************************)
(* JSON documents                                                          *)
(*   kind     "absent"     no file at the path                             *)
(*            "unreadable" open() raises                                   *)
(*            "invalid"    json.load raises (not JSON, truncated, empty)   *)
(*            "nonobject"  valid JSON that is no object (array, number,    *)
(*                         string): "notes" in data is false or raises,    *)
(*                         data.get raises                                 *)
(*            "object"     a JSON object                                   *)
(*   notes    the value under "notes": shape "missing" (no such key),      *)
(*            "null" (a falsy non-list: null, 0, {}), "int" (a truthy      *)
(*            non-list such as 5) or "list" with the notes in items        *)
(*   settings the value under "settings", when present                     *)
(*   legacy   the top-level fields content, pinned, opacity, theme_index   *)
(***************************************************************************)
NoNotes == [shape |-> "missing", items |-> << >>]
NoSettings == [present |-> FALSE, val |-> EmptyDict]

PlainDoc(kind) ==
    [kind |-> kind, notes |-> NoNotes, settings |-> NoSettings,
     legacy |-> EmptyDict]

AbsentDoc == PlainDoc("absent")
InvalidDoc == PlainDoc("invalid")

ObjectDoc(notes, sett, legacy) ==
    [kind |-> "object", notes |-> notes, settings |-> sett, legacy |-> legacy]

Store(type, notes, sett) ==
    [notes_type |-> type, notes_data |-> notes, settings |-> sett]

\* Fault variant of save_doc: the document without the settings.
save_doc_notes_only(st) ==
    ObjectDoc([shape |-> st.notes_type, items |-> st.notes_data],
              NoSettings, EmptyDict)

\* The document json.dump writes in save_data: {"notes": ..., "settings": ...}
save_doc(st) ==
    ObjectDoc([shape |-> st.notes_type, items |-> st.notes_data],
              [present |-> TRUE, val |-> st.settings], EmptyDict)

\* Fault variant of load_data: the legacy branch wraps the content but does
\* not lift the legacy settings fields.
load_data_legacy_settings_dropped(doc, st, new_id, now) ==
    IF doc.kind # "object"
    THEN [store |-> st, uuids |-> 0]
    ELSE IF doc.notes.shape # "missing"
    THEN [store |-> Store(doc.notes.shape, doc.notes.items,
                          IF doc.settings.present THEN doc.settings.val
                                                  ELSE st.settings),
          uuids |-> 0]
    ELSE [store |-> Store("list",
                          <<Note(new_id, Get(doc.legacy, "content", ""), now)>>,
                          st.settings),
          uuids |-> 1]

\* load_data on the store st; new_id and now are the values uuid4() and
\* time.time() return if they are called.  The result is the store after
\* load_data, with the number of uuid4() calls made.
load_data(doc, st, new_id, now) ==
    IF doc.kind # "object"
    THEN \* no file, or an exception caught by the except clause
         [store |-> st, uuids |-> 0]
    ELSE IF doc.notes.shape # "missing"
    THEN [store |-> Store(doc.notes.shape, doc.notes.items,
                          IF doc.settings.present THEN doc.settings.val
                                                  ELSE st.settings),
          uuids |-> 0]
    ELSE [store |-> Store("list",
                          <<Note(new_id, Get(doc.legacy, "content", ""), now)>>,
                          [k \in DOMAIN st.settings \cup SettingKeys |->
                              CASE k = "pinned" -> Get(doc.legacy, "pinned", FALSE)
                                [] k = "opacity" -> Get(doc.legacy, "opacity", DefaultOpacity)
                                [] k = "theme_index" -> Get(doc.legacy, "theme_index", 0)
                                [] OTHER -> st.settings[k]]),
          uuids |-> 1]

\* get_note_content: the content of the first note with this id, else ""
get_note_content(notes, note_id) ==
    IF \E i \in DOMAIN notes : notes[i].id = note_id
    THEN notes[CHOOSE i \in DOMAIN notes :
                  /\ notes[i].id = note_id
                  /\ \A j \in DOMAIN notes : notes[j].id = note_id => i <= j].content
    ELSE ""

(***************************************************************************)
(* The program state handled by the methods: the NoteManager fields, the   *)
(* file, the windows connected to the signals, and what the call did (its  *)
(* trace, and the windows that wrote to the store from within a slot).     *)
(***************************************************************************)
World ==
    [notes_type |-> notes_type, notes_data |-> notes_data,
     settings |-> settings, file |-> file, windows |-> windows,
     uuid_count |-> uuid_count, trace |-> << >>, reentrant |-> {},
     delivered |-> << >>]

\* The world at the entry point `op` of an action.
Enter(op) == [World EXCEPT !.trace = <<op>>]

Log(w, event) == [w EXCEPT !.trace = Append(@, event)]

SaveEvent(io) ==
    CASE io = "ok" -> "save_data ok"
      [] io = "open_failed" -> "save_data open_failed"
      [] OTHER -> "save_data write_failed"
SaveEvents == {SaveEvent(io) : io \in {"ok", "open_failed", "write_failed"}}

StoreOf(w) == Store(w.notes_type, w.notes_data, w.settings)

\* Signal.emit: the slots of the connected windows run now, on the world w.
\* What they can observe is recorded: how many windows receive the signal,
\* whether the file holds the document of the store, how many notes the
\* store has.
Deliver(w, signal) ==
    [Log(w, signal) EXCEPT
        !.delivered = Append(@, [signal |-> signal,
                                 receivers |-> Len(w.windows),
                                 persisted |-> w.file = save_doc(StoreOf(w)),
                                 notes |-> Len(w.notes_data)])]

Window(note_id, text, pin_checked, slider, theme_idx) ==
    [note_id |-> note_id, text |-> text, pin_checked |-> pin_checked,
     slider |-> slider, theme_idx |-> theme_idx,
     bg_alpha |-> 0]             \* no style applied yet

\* QTextEdit.setPlainText: the new window, and whether textChanged is emitted
\* (it is not while the editor's signals are blocked).
setPlainText(win, content, blocked) ==
    [win |-> [win EXCEPT !.text = content], emits |-> ~blocked]

\* StickyNote.load_content
load_content(win, notes) ==
    setPlainText(win, get_note_content(notes, win.note_id), TRUE).win

\* Fault variant of switch_note: the content of the new note is not loaded.
switch_note_without_load(win, note_id, notes) ==
    IF note_id = win.note_id THEN win
    ELSE [win EXCEPT !.note_id = note_id]

\* StickyNote.switch_note
switch_note(win, note_id, notes) ==
    IF note_id = win.note_id THEN win
    ELSE load_content([win EXCEPT !.note_id = note_id], notes)

\* Products of the curve exceed 32 bits: a * b as hi * 1000 + lo, lo < 1000.
Times1000(a, b) ==
    [hi |-> (a \div 1000) * b + ((a % 1000) * b) \div 1000,
     lo |-> ((a % 1000) * b) % 1000]

LessEq1000(p, q) == p.hi < q.hi \/ (p.hi = q.hi /\ p.lo <= q.lo)

\* int(CurveSpan * t ** 0.4) for t = u / CurveSpan, 0 <= u <= CurveSpan: the
\* largest k with k^5 <= CurveSpan^3 * u^2.  (The float result of the code
\* is this integer for all these u: the real value is an integer only at
\* u = 0 and u = CurveSpan, where the float operations are exact.)
CurveFloor(u) ==
    LET rhs == Times1000(CurveSpan * CurveSpan * CurveSpan, u * u)
        fits(k) == LessEq1000(Times1000(k * k * k, k * k), rhs)
    IN CHOOSE k \in 0..CurveSpan :
          fits(k) /\ (k < CurveSpan => ~fits(k + 1))

\* Fault variant of BgAlpha: the base is not added back.
BgAlpha_without_base ==
    [v \in SliderMin..SliderMax |->
        CurveFloor(IF v < CurveBase THEN 0 ELSE v - CurveBase)]

\* bg_alpha of update_style for every value the slider can have
BgAlpha ==
    [v \in SliderMin..SliderMax |->
        CurveBase + CurveFloor(IF v < CurveBase THEN 0 ELSE v - CurveBase)]

\* StickyNote.update_style: the window's background alpha and theme
update_style(win, opacity_val, theme_idx) ==
    [win EXCEPT !.bg_alpha = BgAlpha[opacity_val], !.theme_idx = theme_idx]

\* QSlider.setValue keeps the value within the slider's range.
setValue(val) ==
    IF val < SliderMin THEN SliderMin
    ELSE IF val > SliderMax THEN SliderMax ELSE val

\* Fault variant of apply_global_settings: the pin button is not updated.
apply_global_settings_pin_kept(win, sett) ==
    update_style([win EXCEPT !.slider = setValue(sett["opacity"])],
                 sett["opacity"], sett["theme_index"])

\* StickyNote.apply_global_settings (and on_settings_atomic_change)
apply_global_settings(win, sett) ==
    update_style([win EXCEPT !.pin_checked = sett["pinned"],
                             !.slider = setValue(sett["opacity"])],
                 sett["opacity"], sett["theme_index"])

\* Fault variant of on_external_content_change: the text is set without
\* blockSignals(True), so the editor emits textChanged.
on_external_content_change_unblocked(win, note_id, content) ==
    IF note_id = win.note_id /\ win.text # content
    THEN setPlainText(win, content, FALSE)
    ELSE [win |-> win, emits |-> FALSE]

\* StickyNote.on_external_content_change: the window after the slot, and
\* whether its editor emitted textChanged (which would run on_text_changed).
on_external_content_change(win, note_id, content) ==
    IF note_id = win.note_id /\ win.text # content
    THEN setPlainText(win, content, TRUE)
    ELSE [win |-> win, emits |-> FALSE]

\* StickyNote.on_notes_list_updated: the window closes itself when its note
\* is gone and the store is empty, else falls back to the first note.
closes_on_notes_list_updated(win, notes) ==
    /\ win.note_id \notin NoteIds(notes)
    /\ notes = << >>

\* Fault variant of on_notes_list_updated: the window always jumps to the
\* first note of the list.
on_notes_list_updated_always_first(win, notes) ==
    switch_note(win, notes[1].id, notes)

\* Fault variant of on_notes_list_updated: no fallback to the first note.
on_notes_list_updated_no_fallback(win, notes) == win

on_notes_list_updated(win, notes) ==
    IF win.note_id \in NoteIds(notes) THEN win
    ELSE switch_note(win, notes[1].id, notes)

MapSeq(seq, Op(_)) == [i \in DOMAIN seq |-> Op(seq[i])]

\* notes_updated.emit()
emit_notes_updated(w) ==
    LET stay(win) == ~closes_on_notes_list_updated(win, w.notes_data)
        slot(win) == on_notes_list_updated(win, w.notes_data)
        closing == {i \in DOMAIN w.windows : ~stay(w.windows[i])}
        w1 == Deliver(w, "notes_updated")
        w2 == IF closing = {} THEN w1 ELSE Log(w1, "close")
    IN [w2 EXCEPT !.windows = MapSeq(SelectSeq(w.windows, stay), slot)]

\* note_content_changed.emit(note_id, content)
emit_note_content_changed(w, note_id, content) ==
    LET r == [i \in DOMAIN w.windows |->
                 on_external_content_change(w.windows[i], note_id, content)]
    IN [Deliver(w, "note_content_changed") EXCEPT
           !.windows = [i \in DOMAIN w.windows |-> r[i].win],
           !.reentrant = @ \cup {i \in DOMAIN w.windows : r[i].emits}]

\* settings_changed.emit()
emit_settings_changed(w) ==
    LET slot(win) == apply_global_settings(win, w.settings)
    IN [Deliver(w, "settings_changed") EXCEPT
           !.windows = MapSeq(w.windows, slot)]

\* Fault variant of save_data: a failed write is tried a second time (and
\* then succeeds).
save_data_retry(w, io) ==
    IF io = "ok"
    THEN [w EXCEPT !.file = save_doc(StoreOf(w)),
                   !.trace = Append(@, SaveEvent("ok"))]
    ELSE [w EXCEPT !.file = save_doc(StoreOf(w)),
                   !.trace = @ \o <<SaveEvent(io), SaveEvent("ok")>>]

\* NoteManager.save_data; io is what the file system does with the write:
\* "ok", "open_failed" (open raises, the file is untouched) or
\* "write_failed" (the file was truncated and is left incomplete).
save_data(w, io) ==
    [w EXCEPT !.file = CASE io = "ok" -> save_doc(StoreOf(w))
                         [] io = "open_failed" -> w.file
                         [] OTHER -> InvalidDoc,
              !.trace = Append(@, SaveEvent(io))]

\* Fault variant of create_new_note: the note is appended, not inserted at 0.
create_new_note_appended(w, save, now, io) ==
    LET new_id == uuid4(w.uuid_count)
        w1 == [Log(w, "create_new_note") EXCEPT
                  !.notes_data = Append(@, Note(new_id, "", now)),
                  !.uuid_count = @ + 1]
        w2 == IF save THEN save_data(w1, io) ELSE w1
    IN [world |-> emit_notes_updated(w2), ret |-> new_id]

\* NoteManager.create_new_note(save)
create_new_note(w, save, now, io) ==
    LET new_id == uuid4(w.uuid_count)
        w1 == [Log(w, "create_new_note") EXCEPT
                  !.notes_data = <<Note(new_id, "", now)>> \o @,
                  !.uuid_count = @ + 1]
        w2 == IF save THEN save_data(w1, io) ELSE w1
    IN [world |-> emit_notes_updated(w2), ret |-> new_id]

\* Fault variant of delete_note: an emptied store is not refilled.
delete_note_without_recreate(w, note_id, now, io) ==
    LET keep(n) == n.id # note_id
        w1 == [Log(w, "delete_note") EXCEPT !.notes_data = SelectSeq(@, keep)]
    IN emit_notes_updated(save_data(w1, io))

\* Fault variant of delete_note: the replacement note is created with
\* save=True, a second write.
delete_note_redundant_save(w, note_id, now, io) ==
    LET keep(n) == n.id # note_id
        w1 == [Log(w, "delete_note") EXCEPT !.notes_data = SelectSeq(@, keep)]
        w2 == IF w1.notes_data = << >>
              THEN create_new_note(w1, TRUE, now, io).world
              ELSE w1
    IN emit_notes_updated(save_data(w2, io))

\* Fault variant of delete_note: notes_updated is emitted on the emptied
\* store, before the replacement note is created.
delete_note_emits_when_empty(w, note_id, now, io) ==
    LET keep(n) == n.id # note_id
        w1 == [Log(w, "delete_note") EXCEPT !.notes_data = SelectSeq(@, keep)]
        w2 == IF w1.notes_data = << >>
              THEN create_new_note(emit_notes_updated(w1), FALSE, now, io).world
              ELSE w1
    IN emit_notes_updated(save_data(w2, io))

\* NoteManager.delete_note
delete_note(w, note_id, now, io) ==
    LET keep(n) == n.id # note_id
        w1 == [Log(w, "delete_note") EXCEPT !.notes_data = SelectSeq(@, keep)]
        w2 == IF w1.notes_data = << >>
              THEN create_new_note(w1, FALSE, now, io).world
              ELSE w1
    IN emit_notes_updated(save_data(w2, io))

\* Fault variant of update_note_content: an empty content is not stored.
update_note_content_skips_empty(w, note_id, content, now, io) ==
    LET hit == {i \in DOMAIN w.notes_data : w.notes_data[i].id = note_id}
        first == CHOOSE i \in hit : \A j \in hit : i <= j
        w0 == Log(w, "update_note_content")
        w1 == IF hit = {} \/ content = "" THEN w0
              ELSE [w0 EXCEPT !.notes_data[first].content = content,
                              !.notes_data[first].timestamp = now]
    IN emit_note_content_changed(save_data(w1, io), note_id, content)

\* Fault variant of update_note_content: a missing id is inserted (upsert).
update_note_content_upsert(w, note_id, content, now, io) ==
    LET hit == {i \in DOMAIN w.notes_data : w.notes_data[i].id = note_id}
        first == CHOOSE i \in hit : \A j \in hit : i <= j
        w0 == Log(w, "update_note_content")
        w1 == IF hit = {}
              THEN [w0 EXCEPT !.notes_data = <<Note(note_id, content, now)>> \o @]
              ELSE [w0 EXCEPT !.notes_data[first].content = content,
                              !.notes_data[first].timestamp = now]
    IN emit_note_content_changed(save_data(w1, io), note_id, content)

\* Fault variant of update_note_content: the edited note is moved to the
\* front of the list.
update_note_content_moves_to_front(w, note_id, content, now, io) ==
    LET hit == {i \in DOMAIN w.notes_data : w.notes_data[i].id = note_id}
        first == CHOOSE i \in hit : \A j \in hit : i <= j
        w0 == Log(w, "update_note_content")
        rest == [j \in 1..(Len(w.notes_data) - 1) |->
                    IF j < first THEN w.notes_data[j] ELSE w.notes_data[j + 1]]
        w1 == IF hit = {} THEN w0
              ELSE [w0 EXCEPT !.notes_data =
                                  <<Note(note_id, content, now)>> \o rest]
    IN emit_note_content_changed(save_data(w1, io), note_id, content)

\* NoteManager.update_note_content
update_note_content(w, note_id, content, now, io) ==
    LET hit == {i \in DOMAIN w.notes_data : w.notes_data[i].id = note_id}
        first == CHOOSE i \in hit : \A j \in hit : i <= j
        w0 == Log(w, "update_note_content")
        w1 == IF hit = {} THEN w0
              ELSE [w0 EXCEPT !.notes_data[first].content = content,
                              !.notes_data[first].timestamp = now]
    IN emit_note_content_changed(save_data(w1, io), note_id, content)

\* Fault variant of update_setting: the change is not written to the file.
update_setting_unsaved(w, key, value, io) ==
    LET w1 == [Log(w, "update_setting") EXCEPT
                  !.settings = SetItem(@, key, value)]
    IN emit_settings_changed(w1)

\* NoteManager.update_setting
update_setting(w, key, value, io) ==
    LET w1 == [Log(w, "update_setting") EXCEPT
                  !.settings = SetItem(@, key, value)]
    IN emit_settings_changed(save_data(w1, io))

(***************************************************************************)
(* The documents the file may hold when the program starts.                *)
(***************************************************************************)
FileNotes == {Note(1, "a", 0), Note(2, "", 0)}
FileNoteLists == UNION {[1..n -> FileNotes] : n \in 0..MaxFileNotes}

FileNotesValues ==
    {[shape |-> "null", items |-> << >>], [shape |-> "int", items |-> << >>]}
    \cup {[shape |-> "list", items |-> ns] : ns \in FileNoteLists}

FileSettingsDicts ==
    {[pinned |-> TRUE, opacity |-> SliderMin, theme_index |-> NumThemes - 1],
     [k \in {"opacity"} |-> SliderMin],
     EmptyDict}

FileSettingsValues ==
    {NoSettings} \cup {[present |-> TRUE, val |-> d] : d \in FileSettingsDicts}

LegacyFull ==
    [content |-> "a", pinned |-> TRUE, opacity |-> SliderMin,
     theme_index |-> NumThemes - 1]
LegacyDicts == {[k \in ks |-> LegacyFull[k]] : ks \in SUBSET DOMAIN LegacyFull}
                 \cup {[k \in {"content"} |-> ""]}

FullList == <<Note(1, "a", 0), Note(2, "", 0)>>

\* Every notes value without settings, and every settings value with FullList.
CurrentDocs ==
    {ObjectDoc(n, NoSettings, EmptyDict) : n \in FileNotesValues}
    \cup {ObjectDoc([shape |-> "list", items |-> FullList], st, EmptyDict) :
             st \in FileSettingsValues}
LegacyDocs == {ObjectDoc(NoNotes, NoSettings, d) : d \in LegacyDicts}
FailingDocs == {PlainDoc(k) : k \in {"unreadable", "invalid", "nonobject"}}
Docs == {AbsentDoc} \cup FailingDocs \cup CurrentDocs \cup LegacyDocs

\* The documents a file of the old layout may hold.
LocalDocs == {ObjectDoc(NoNotes, NoSettings, LegacyFull)}

Init ==
    /\ pc = "start"
    /\ \/ file \in Docs /\ local_file = AbsentDoc
       \/ file = AbsentDoc /\ local_file \in LocalDocs
    /\ notes_type = "list"
    /\ notes_data = << >>
    /\ settings = DefaultSettings
    /\ windows = << >>
    /\ uuid_count = 0
    /\ failures_left = 0
    /\ setting_calls_left = MaxSettingCalls
    /\ trace = << >>
    /\ last_write = "none"
    /\ reentrant = {}
    /\ delivered = << >>

\* The outcomes the file system may give the next write.
SaveOutcomes ==
    {"ok"} \cup IF failures_left > 0
                THEN {"open_failed", "write_failed"} ELSE {}

\* The program state after the action's entry point returned (all of it but
\* pc, local_file and the budget of update_setting calls).
Commit(w) ==
    /\ notes_type' = w.notes_type
    /\ notes_data' = w.notes_data
    /\ settings' = w.settings
    /\ file' = w.file
    /\ windows' = w.windows
    /\ uuid_count' = w.uuid_count
    /\ reentrant' = w.reentrant
    /\ delivered' = w.delivered
    /\ trace' = w.trace
    /\ LET saves == SelectSeq(w.trace, LAMBDA e : e \in SaveEvents)
       IN /\ last_write' = IF saves = << >> THEN last_write
                                            ELSE saves[Len(saves)]
          /\ failures_left' = failures_left
                 - Cardinality({i \in DOMAIN saves : saves[i] # SaveEvent("ok")})

\* An exception leaves the entry point and nobody catches it: the state is
\* the one the methods had reached, and the process ends.
Raise(w) ==
    /\ pc' = "crashed"
    /\ Commit(Log(w, "raise"))
    /\ UNCHANGED <<local_file, setting_calls_left>>

\* NoteManager.migrate_old_data: with no file in the app data directory, a
\* file of the old layout is moved there; a failing move is ignored.
migrate_old_data(w, old, move_ok) ==
    IF w.file.kind = "absent" /\ old.kind # "absent" /\ move_ok
    THEN [world |-> [w EXCEPT !.file = old], local_file |-> AbsentDoc]
    ELSE [world |-> w, local_file |-> old]

\* Fault variant of ensure_at_least_one_note: the note is created with the
\* default save=True.
ensure_at_least_one_note_saving(w, now) ==
    IF w.notes_type = "null"
    THEN [world |-> Log(w, "create_new_note"), raised |-> TRUE]
    ELSE IF w.notes_type = "list" /\ w.notes_data = << >>
    THEN [world |-> create_new_note(w, TRUE, now, "ok").world, raised |-> FALSE]
    ELSE [world |-> w, raised |-> FALSE]

\* NoteManager.ensure_at_least_one_note: `not self.notes_data` holds of an
\* empty list and of None; None has no insert, so create_new_note raises.
ensure_at_least_one_note(w, now) ==
    IF w.notes_type = "null"
    THEN [world |-> Log(w, "create_new_note"), raised |-> TRUE]
    ELSE IF w.notes_type = "list" /\ w.notes_data = << >>
    THEN [world |-> create_new_note(w, FALSE, now, "ok").world, raised |-> FALSE]
    ELSE [world |-> w, raised |-> FALSE]

\* NoteManager.__init__: the fields, migrate_old_data, load_data,
\* ensure_at_least_one_note
NoteManager_init(w, old, move_ok, now) ==
    LET m == migrate_old_data(w, old, move_ok)
        w0 == [m.world EXCEPT !.notes_type = "list", !.notes_data = << >>,
                              !.settings = DefaultSettings]
        ld == load_data(w0.file, StoreOf(w0), uuid4(w0.uuid_count), now)
        w1 == [w0 EXCEPT !.notes_type = ld.store.notes_type,
                         !.notes_data = ld.store.notes_data,
                         !.settings = ld.store.settings,
                         !.uuid_count = @ + ld.uuids]
        e == ensure_at_least_one_note(w1, now)
    IN [world |-> e.world, raised |-> e.raised, local_file |-> m.local_file]

\* __main__: manager = NoteManager()
Construct ==
    /\ pc = "start"
    /\ \E now \in Times, move_ok \in BOOLEAN :
          LET r == NoteManager_init(Enter("NoteManager.__init__"), local_file,
                                    move_ok, now)
          IN /\ pc' = IF r.raised THEN "crashed" ELSE "ready"
             /\ Commit(IF r.raised THEN Log(r.world, "raise") ELSE r.world)
             /\ local_file' = r.local_file
             /\ UNCHANGED setting_calls_left

\* StickyNote.__init__(manager, note_id); note_id = 0 stands for None.  The
\* window is connected to the signals before its settings are applied.
new_window(w, note_id, now) ==
    IF note_id = 0 /\ w.notes_type # "list"
    THEN [world |-> w, raised |-> TRUE]      \* self.manager.notes_data[0]
    ELSE LET w1 == IF note_id = 0 /\ w.notes_data = << >>
                   THEN create_new_note(w, FALSE, now, "ok").world
                   ELSE w
             id == IF note_id = 0 THEN w1.notes_data[1].id ELSE note_id
         IN IF ~(SettingKeys \subseteq DOMAIN w1.settings)
            THEN [world |-> w1, raised |-> TRUE]   \* KeyError in apply_global_settings
            ELSE LET blank == Window(id, "", FALSE, SliderMin, 0)
                     win == load_content(
                                apply_global_settings(blank, w1.settings),
                                w1.notes_data)
                 IN [world |-> [w1 EXCEPT !.windows = Append(@, win)],
                     raised |-> FALSE]

\* __main__: window = StickyNote(manager)
OpenMainWindow ==
    /\ pc = "ready"
    /\ \E now \in Times :
          LET r == new_window(Enter("StickyNote.__init__"), 0, now)
          IN IF r.raised
             THEN Raise(r.world)
             ELSE /\ pc' = "running"
                  /\ Commit(r.world)
                  /\ UNCHANGED <<local_file, setting_calls_left>>

Alive == pc \in {"ready", "running"}

\* A call of NoteManager.delete_note(note_id) with any id (a test, or a
\* caller that holds an id the store no longer has)
ManagerDeleteNote(note_id) ==
    /\ Alive
    /\ IF notes_type # "list"
       THEN Raise(Log(Enter("call"), "delete_note"))
       ELSE /\ uuid_count < MaxUuid
            /\ \E now \in Times, io \in SaveOutcomes :
                  Commit(delete_note(Enter("call"), note_id, now, io))
            /\ UNCHANGED <<pc, local_file, setting_calls_left>>

\* A call of NoteManager.update_note_content(note_id, content) with any id
ManagerUpdateNoteContent(note_id, content) ==
    /\ Alive
    /\ IF notes_type # "list"
       THEN Raise(Log(Enter("call"), "update_note_content"))
       ELSE /\ \E now \in Times, io \in SaveOutcomes :
                  Commit(update_note_content(Enter("call"), note_id, content,
                                             now, io))
            /\ UNCHANGED <<pc, local_file, setting_calls_left>>

(***************************************************************************)
(* User actions on window i.  The side menu lists the notes of the store   *)
(* (it is refreshed on every notes_updated), so the ids a user can click   *)
(* are the ids in notes_data.                                              *)
(***************************************************************************)
Running(i) == pc = "running" /\ i \in DOMAIN windows

\* StickyNote.on_text_changed: the user has edited the text of window i
TextChanged(i, content) ==
    /\ Running(i)
    /\ \E now \in Times, io \in SaveOutcomes :
          LET w0 == [Enter("on_text_changed") EXCEPT
                        !.windows[i].text = content]
          IN Commit(update_note_content(w0, windows[i].note_id, content,
                                        now, io))
    /\ UNCHANGED <<pc, local_file, setting_calls_left>>

\* StickyNote.create_new_note ("+ New Note")
WinCreateNewNote(i) ==
    /\ Running(i)
    /\ Len(notes_data) < MaxNotes
    /\ uuid_count < MaxUuid
    /\ \E now \in Times, io \in SaveOutcomes :
          LET r == create_new_note(Enter("StickyNote.create_new_note"), TRUE,
                                   now, io)
              w1 == r.world
          IN Commit([w1 EXCEPT !.windows[i] =
                        switch_note(@, r.ret, w1.notes_data)])
    /\ UNCHANGED <<pc, local_file, setting_calls_left>>

\* StickyNote.delete_note (the trash button of a menu item)
WinDeleteNote(i, note_id) ==
    /\ Running(i)
    /\ note_id \in NoteIds(notes_data)
    /\ uuid_count < MaxUuid
    /\ \E now \in Times, io \in SaveOutcomes :
          Commit(delete_note(Enter("StickyNote.delete_note"), note_id, now, io))
    /\ UNCHANGED <<pc, local_file, setting_calls_left>>

\* StickyNote.switch_note (a click on a menu item)
WinSwitchNote(i, note_id) ==
    /\ Running(i)
    /\ note_id \in NoteIds(notes_data)
    /\ Commit([Enter("switch_note") EXCEPT
                  !.windows[i] = switch_note(@, note_id, notes_data)])
    /\ UNCHANGED <<pc, local_file, setting_calls_left>>

\* StickyNote.open_popout (the pop-out button of a menu item)
WinOpenPopout(i, note_id) ==
    /\ Running(i)
    /\ note_id \in NoteIds(notes_data)
    /\ Len(windows) < MaxWindows
    /\ \E now \in Times :
          Commit(new_window(Enter("open_popout"), note_id, now).world)
    /\ UNCHANGED <<pc, local_file, setting_calls_left>>

\* StickyNote.toggle_pin: the click has toggled the button of window i
WinTogglePin(i) ==
    /\ Running(i)
    /\ setting_calls_left > 0
    /\ \E io \in SaveOutcomes :
          LET w0 == [Enter("toggle_pin") EXCEPT !.windows[i].pin_checked = ~@]
          IN Commit(update_setting(w0, "pinned", w0.windows[i].pin_checked, io))
    /\ setting_calls_left' = setting_calls_left - 1
    /\ UNCHANGED <<pc, local_file>>

\* Fault variant of cycle_theme: the modulus is one too small.
WinCycleTheme_short_cycle(i) ==
    /\ Running(i)
    /\ setting_calls_left > 0
    /\ \E io \in SaveOutcomes :
          Commit(update_setting(Enter("cycle_theme"), "theme_index",
                                (settings["theme_index"] + 1) % (NumThemes - 1),
                                io))
    /\ setting_calls_left' = setting_calls_left - 1
    /\ UNCHANGED <<pc, local_file>>

\* StickyNote.cycle_theme
WinCycleTheme(i) ==
    /\ Running(i)
    /\ setting_calls_left > 0
    /\ \E io \in SaveOutcomes :
          Commit(update_setting(Enter("cycle_theme"), "theme_index",
                                (settings["theme_index"] + 1) % NumThemes, io))
    /\ setting_calls_left' = setting_calls_left - 1
    /\ UNCHANGED <<pc, local_file>>

\* StickyNote.update_opacity_val: the user moved the slider of window i
WinUpdateOpacityVal(i, value) ==
    /\ Running(i)
    /\ setting_calls_left > 0
    /\ value # windows[i].slider
    /\ \E io \in SaveOutcomes :
          LET w0 == [Enter("update_opacity_val") EXCEPT
                        !.windows[i].slider = value]
          IN Commit(update_setting(w0, "opacity", value, io))
    /\ setting_calls_left' = setting_calls_left - 1
    /\ UNCHANGED <<pc, local_file>>

RemoveAt(seq, i) ==
    [j \in 1..(Len(seq) - 1) |-> IF j < i THEN seq[j] ELSE seq[j + 1]]

\* StickyNote.closeEvent; the application quits with its last window
\* (setQuitOnLastWindowClosed).
WinClose(i) ==
    /\ Running(i)
    /\ Commit([Enter("closeEvent") EXCEPT !.windows = RemoveAt(@, i)])
    /\ pc' = IF Len(windows) = 1 THEN "exited" ELSE pc
    /\ UNCHANGED <<local_file, setting_calls_left>>

Next ==
    \/ Construct
    \/ OpenMainWindow
    \/ \E id \in Ids : ManagerDeleteNote(id)
    \/ \E id \in Ids, c \in Contents : ManagerUpdateNoteContent(id, c)
    \/ \E i \in 1..MaxWindows, c \in Contents : TextChanged(i, c)
    \/ \E i \in 1..MaxWindows : WinCreateNewNote(i)
    \/ \E i \in 1..MaxWindows, id \in Ids : WinDeleteNote(i, id)
    \/ \E i \in 1..MaxWindows, id \in Ids : WinSwitchNote(i, id)
    \/ \E i \in 1..MaxWindows, id \in Ids : WinOpenPopout(i, id)
    \/ \E i \in 1..MaxWindows : WinTogglePin(i)
    \/ \E i \in 1..MaxWindows : WinCycleTheme(i)
    \/ \E i \in 1..MaxWindows, v \in OpacityValues : WinUpdateOpacityVal(i, v)
    \/ \E i \in 1..MaxWindows : WinClose(i)

Spec == Init /\ [][Next]_vars

\* The same program on a file system whose writes may fail, started without
\* a file or from a file in the legacy format.
InitFlaky ==
    /\ pc = "start"
    /\ file \in {AbsentDoc} \cup LocalDocs
    /\ local_file = AbsentDoc
    /\ notes_type = "list"
    /\ notes_data = << >>
    /\ settings = DefaultSettings
    /\ windows = << >>
    /\ uuid_count = 0
    /\ failures_left = MaxWriteFailures
    /\ setting_calls_left = MaxSettingCalls
    /\ trace = << >>
    /\ last_write = "none"
    /\ reentrant = {}
    /\ delivered = << >>

SpecFlaky == InitFlaky /\ [][Next]_vars

\* The program started from a file with any theme index, its windows
\* opened, and the theme button clicked up to MaxThemeCalls times.
CycleDocs ==
    {ObjectDoc([shape |-> "list", items |-> FullList],
               [present |-> TRUE,
                val |-> [DefaultSettings EXCEPT !["theme_index"] = t]],
               EmptyDict) : t \in ThemeValues}

InitCycle ==
    /\ pc = "start"
    /\ file \in CycleDocs
    /\ local_file = AbsentDoc
    /\ notes_type = "list"
    /\ notes_data = << >>
    /\ settings = DefaultSettings
    /\ windows = << >>
    /\ uuid_count = 0
    /\ failures_left = 0
    /\ setting_calls_left = MaxThemeCalls
    /\ trace = << >>
    /\ last_write = "none"
    /\ reentrant = {}
    /\ delivered = << >>

NextCycle ==
    \/ Construct
    \/ OpenMainWindow
    \/ \E i \in 1..MaxWindows, id \in Ids : WinOpenPopout(i, id)
    \/ \E i \in 1..MaxWindows : WinCycleTheme(i)

SpecCycle == InitCycle /\ [][NextCycle]_vars

\* The program started from a file with any opacity of the slider's range,
\* and the slider moved to any other value.
OpacityDocs ==
    {ObjectDoc([shape |-> "list", items |-> FullList],
               [present |-> TRUE,
                val |-> [DefaultSettings EXCEPT !["opacity"] = v]],
               EmptyDict) : v \in SliderMin..SliderMax}

InitOpacity ==
    /\ pc = "start"
    /\ file \in OpacityDocs
    /\ local_file = AbsentDoc
    /\ notes_type = "list"
    /\ notes_data = << >>
    /\ settings = DefaultSettings
    /\ windows = << >>
    /\ uuid_count = 0
    /\ failures_left = 0
    /\ setting_calls_left = MaxSettingCalls
    /\ trace = << >>
    /\ last_write = "none"
    /\ reentrant = {}
    /\ delivered = << >>

NextOpacity ==
    \/ Construct
    \/ OpenMainWindow
    \/ \E i \in 1..MaxWindows, v \in SliderMin..SliderMax :
          WinUpdateOpacityVal(i, v)

SpecOpacity == InitOpacity /\ [][NextOpacity]_vars

(***************************************************************************)
(* Properties                                                              *)
(***************************************************************************)
EntryPoint == IF trace = << >> THEN "none" ELSE trace[1]

\* The last action ran the method (or delivered the signal) m.
Ran(m) == \E k \in DOMAIN trace : trace[k] = m

Raised == Ran("raise")

\* NoteManager() has returned.
Constructed == pc # "start" /\ ~(EntryPoint = "NoteManager.__init__" /\ Raised)

\* The store holds a sequence of notes (the document it was loaded from,
\* if any, had a list under "notes" or was in the legacy format).
ListStore == Constructed /\ notes_type = "list"

Distinct(notes) ==
    \A i, j \in DOMAIN notes : notes[i].id = notes[j].id => i = j

\* The step is a call of NoteManager.delete_note(id), by a window or directly.
DeleteStep(id) ==
    \/ ManagerDeleteNote(id)
    \/ \E i \in 1..MaxWindows : WinDeleteNote(i, id)

\* The step ran the method m.
RanNext(m) == \E k \in DOMAIN trace' : trace'[k] = m

\* C1: once NoteManager is constructed, and after any sequence of store
\* operations, the note sequence holds at least one note; delete_note on the
\* only remaining note leaves exactly one note, blank, with another id.
C1_NonEmpty == ListStore => Len(notes_data) >= 1

C1_DeleteLast ==
    \A id \in Ids :
        (/\ Len(notes_data) = 1
         /\ notes_data[1].id = id
         /\ RanNext("delete_note")
         /\ DeleteStep(id))
        => /\ Len(notes_data') = 1
           /\ notes_data'[1].content = ""
           /\ notes_data'[1].id # id

C1_StoreNeverEmpty == []C1_NonEmpty /\ [][C1_DeleteLast]_vars

\* A window deleted the only note and now shows its blank replacement.
C1_Witness ==
    /\ EntryPoint = "StickyNote.delete_note"
    /\ Ran("create_new_note")
    /\ Len(notes_data) = 1
    /\ notes_data[1].content = ""
    /\ notes_data[1].id \in UuidIds
    /\ windows # << >>

\* C2: create_new_note returns an id no note of the store had; afterwards
\* the blank note with that id is at position 0, followed by the previous
\* notes in their previous order; so ids that are pairwise distinct stay so.
C2_WindowCreate ==
    \A i \in 1..MaxWindows :
        (RanNext("create_new_note") /\ WinCreateNewNote(i))
        => LET ret == windows'[i].note_id
           IN /\ ret \notin NoteIds(notes_data)
              /\ Len(notes_data') = Len(notes_data) + 1
              /\ notes_data'[1].id = ret
              /\ notes_data'[1].content = ""
              /\ Tail(notes_data') = notes_data

\* Every call that returned, the ones delete_note and the constructors make
\* included (delete_note calls it on the store it has just emptied).
C2_AnyCreate ==
    (RanNext("create_new_note") /\ ~RanNext("raise"))
    => /\ notes_data'[1].id \notin NoteIds(notes_data)
       /\ notes_data'[1].content = ""
       /\ Tail(notes_data') = IF RanNext("delete_note") THEN << >>
                                                        ELSE notes_data

C2_StayDistinct ==
    (pc # "start" /\ Distinct(notes_data)) => Distinct(notes_data')

C2_FreshIdAtFront ==
    [][C2_WindowCreate /\ C2_AnyCreate /\ C2_StayDistinct]_vars

\* A window created a third note next to the two loaded from the file.
C2_Witness ==
    /\ EntryPoint = "StickyNote.create_new_note"
    /\ Len(notes_data) = 3
    /\ Distinct(notes_data)
    /\ notes_data[1].id \in UuidIds
    /\ notes_data[1].content = ""
    /\ NoteIds(Tail(notes_data)) = FileIds
    /\ \E i \in DOMAIN windows : windows[i].note_id = notes_data[1].id

\* C3: no update is lost.  get_note_content(id) is the content of the most
\* recent update_note_content(id, .) since the note was created or loaded
\* (else its created or loaded content), and "" for an id not in the store.
C3_MissIsEmpty ==
    \A id \in Ids : id \notin NoteIds(notes_data)
                    => get_note_content(notes_data, id) = ""

\* An update sets what get_note_content returns for its id and for no other.
C3_Effect(id, c) ==
    \A k \in NoteIds(notes_data') :
        get_note_content(notes_data', k)
            = IF k = id THEN c ELSE get_note_content(notes_data, k)

C3_Update ==
    /\ (RanNext("update_note_content") /\ trace'[1] = "call")
       => \A id \in Ids, c \in Contents :
             ManagerUpdateNoteContent(id, c) => C3_Effect(id, c)
    /\ (RanNext("update_note_content") /\ trace'[1] = "on_text_changed")
       => \A i \in DOMAIN windows, c \in Contents :
             TextChanged(i, c) => C3_Effect(windows[i].note_id, c)

\* Any other operation keeps it for the notes that stay, and a note it
\* creates is blank.
C3_Others ==
    (pc # "start" /\ ~RanNext("update_note_content"))
    => \A k \in NoteIds(notes_data') :
          get_note_content(notes_data', k)
              = IF k \in NoteIds(notes_data)
                THEN get_note_content(notes_data, k) ELSE ""

\* A loaded note has the content the document gives it.
C3_Loaded ==
    (pc = "start" /\ file.kind = "object" /\ file.notes.shape = "list")
    => \A k \in Ids :
          get_note_content(notes_data', k)
              = get_note_content(file.notes.items, k)

C3_NoLostUpdate ==
    []C3_MissIsEmpty /\ [][C3_Update /\ C3_Others /\ C3_Loaded]_vars

\* With two windows open, an edit has replaced the loaded content "a" of
\* note 1 by "", and the other notes are as they were created or loaded.
C3_Witness ==
    /\ EntryPoint = "on_text_changed"
    /\ Len(windows) = 2
    /\ 1 \in NoteIds(notes_data)
    /\ get_note_content(notes_data, 1) = ""
    /\ \E n \in DOMAIN notes_data : notes_data[n].id = 1
                                     /\ notes_data[n].timestamp \in Times
    /\ \E k \in UuidIds : k \in NoteIds(notes_data)

\* C4: with two or more windows open, when the edit of window A calls
\* update_note_content(X, c), every other window that shows X displays c when
\* the call returns, and no window has called a store write in reaction.
C4_NoReentrantWrite == reentrant = {}

C4_OthersShow ==
    \A i \in 1..MaxWindows, c \in Contents :
        (/\ RanNext("update_note_content")
         /\ Len(windows) >= 2
         /\ TextChanged(i, c))
        => /\ \A j \in DOMAIN windows :
                 (j # i /\ windows[j].note_id = windows[i].note_id)
                 => windows'[j].text = c
           /\ Cardinality({k \in DOMAIN trace' :
                              trace'[k] = "update_note_content"}) = 1
           /\ Cardinality({k \in DOMAIN trace' :
                              trace'[k] \in SaveEvents}) = 1

C4_ContentBroadcast == []C4_NoReentrantWrite /\ [][C4_OthersShow]_vars

\* Two windows show the same note, created or loaded blank; one was edited
\* to "a" and both display "a".
C4_Witness ==
    /\ EntryPoint = "on_text_changed"
    /\ Ran("note_content_changed")
    /\ Len(windows) = 2
    /\ windows[1].note_id = windows[2].note_id
    /\ windows[1].note_id # 1
    /\ windows[1].text = "a"
    /\ windows[2].text = "a"
    /\ get_note_content(notes_data, windows[1].note_id) = "a"

\* C5: when delete_note(X) is called while a window shows X, that window
\* shows the first remaining note when the call returns; so every open
\* window's note_id is the id of a note of the store.
C5_WindowsOnNotes ==
    \A j \in DOMAIN windows : windows[j].note_id \in NoteIds(notes_data)

C5_Fallback ==
    \A id \in Ids :
        (RanNext("delete_note") /\ ~RanNext("raise") /\ DeleteStep(id))
        => /\ Len(windows') = Len(windows)
           /\ \A j \in DOMAIN windows :
                 windows'[j].note_id = IF windows[j].note_id = id
                                       THEN notes_data'[1].id
                                       ELSE windows[j].note_id

C5_DeleteFallback == []C5_WindowsOnNotes /\ [][C5_Fallback]_vars

\* One window deleted the note both windows showed, with another note
\* left in the store: both show the first remaining note.
C5_Witness ==
    /\ EntryPoint = "StickyNote.delete_note"
    /\ ~Ran("create_new_note")
    /\ Len(windows) = 2
    /\ Len(notes_data) = 2
    /\ uuid_count = 1
    /\ windows[1].note_id = notes_data[1].id
    /\ windows[2].note_id = notes_data[1].id
    /\ windows[2].text = notes_data[1].content
    /\ notes_data[1].content = "a"

\* C6: round trip.  Writing the store with save_data and running load_data
\* on a fresh store gives the same notes in the same order and the same
\* settings.
FreshStore == Store("list", << >>, DefaultSettings)

Reloaded(new_id, now) ==
    load_data(save_data(World, "ok").file, FreshStore, new_id, now)

C6_RoundTrip ==
    \A new_id \in UuidIds, now \in Times :
        /\ Reloaded(new_id, now).store = StoreOf(World)
        /\ Reloaded(new_id, now).uuids = 0

\* A store changed by the operations: several notes, one with content, and
\* settings that are not the defaults a fresh store starts with.
C6_Witness ==
    /\ Ran("update_setting")
    /\ Len(notes_data) >= 2
    /\ \E n \in DOMAIN notes_data : notes_data[n].content = "a"
    /\ \E n \in DOMAIN notes_data : notes_data[n].id \in UuidIds
    /\ \A k \in SettingKeys : settings[k] # DefaultSettings[k]
    /\ file = save_doc(StoreOf(World))
    /\ Reloaded(uuid4(0), 1).store = StoreOf(World)

\* C7: a document without "notes" loads as exactly one note, with the
\* document's content ("" if absent) and a fresh id, and settings that are
\* the document's pinned, opacity and theme_index where present, else
\* false, 240 and 0.
LoadedLegacy ==
    /\ EntryPoint = "NoteManager.__init__"
    /\ file.kind = "object"
    /\ file.notes.shape = "missing"

C7_LegacyLoad ==
    LoadedLegacy
    => /\ pc = "ready"
       /\ notes_type = "list"
       /\ Len(notes_data) = 1
       /\ notes_data[1].content = Get(file.legacy, "content", "")
       /\ notes_data[1].id \notin FileIds
       /\ notes_data[1].timestamp \in Times
       /\ DOMAIN settings = SettingKeys
       /\ settings["pinned"] = Get(file.legacy, "pinned", FALSE)
       /\ settings["opacity"] = Get(file.legacy, "opacity", 240)
       /\ settings["theme_index"] = Get(file.legacy, "theme_index", 0)

\* The document {"content": "a", "opacity": 50} has been loaded.
C7_Witness ==
    /\ LoadedLegacy
    /\ DOMAIN file.legacy = {"content", "opacity"}
    /\ Len(notes_data) = 1
    /\ notes_data[1].content = "a"
    /\ settings = [pinned |-> FALSE, opacity |-> SliderMin, theme_index |-> 0]

\* C8: for every file whose read or parse fails (unreadable, not valid JSON,
\* a document of the wrong shape) NoteManager() does not raise and ends in
\* the state it has without a file: default settings and one blank note.
WrongShape(doc) ==
    \/ doc.kind = "nonobject"
    \/ doc.kind = "object" /\ doc.notes.shape \notin {"missing", "list"}

FailsToLoad(doc) == doc.kind \in {"unreadable", "invalid"} \/ WrongShape(doc)

C8_LoadFailsSoft ==
    (EntryPoint = "NoteManager.__init__" /\ FailsToLoad(file))
    => /\ ~Raised
       /\ pc = "ready"
       /\ settings = [pinned |-> FALSE, opacity |-> 240, theme_index |-> 0]
       /\ notes_type = "list"
       /\ Len(notes_data) = 1
       /\ notes_data[1].content = ""

\* C9: update_note_content(id, c) with an id that is not in the store raises
\* nothing and leaves the notes and the settings as they were.
C9_Miss ==
    \A id \in Ids, c \in Contents :
        (/\ ListStore
         /\ id \notin NoteIds(notes_data)
         /\ RanNext("update_note_content")
         /\ ManagerUpdateNoteContent(id, c))
        => /\ ~RanNext("raise")
           /\ pc' = pc
           /\ notes_type' = notes_type
           /\ notes_data' = notes_data
           /\ settings' = settings

C9_MissIsNoOp == [][C9_Miss]_vars

\* update_note_content was called with c = "a" while a window was open on a
\* store whose only note is a blank one made after the file's note was
\* deleted: the note is still blank, and no note has the content "a".
C9_Witness ==
    /\ EntryPoint = "call"
    /\ Ran("update_note_content")
    /\ ~Raised
    /\ Len(windows) >= 1
    /\ Len(notes_data) = 1
    /\ notes_data[1].id \in UuidIds
    /\ notes_data[1].content = ""
    /\ \E i \in DOMAIN windows : windows[i].text = ""
    /\ file = save_doc(StoreOf(World))

\* C10: whenever create_new_note, delete_note, update_note_content or
\* update_setting has returned and the file writes succeed, the persisted
\* document equals the store, in the {notes, settings} format, even if the
\* store was loaded from a legacy document.
Mutations ==
    {"create_new_note", "delete_note", "update_note_content", "update_setting"}

\* The last action was a call of a mutation (not the note a constructor
\* adds with save=False) that returned, and no write of it failed.
MutationReturned ==
    /\ \E m \in Mutations : Ran(m)
    /\ EntryPoint \notin {"NoteManager.__init__", "StickyNote.__init__",
                          "open_popout"}
    /\ ~Raised
    /\ \A k \in DOMAIN trace : trace[k] \in SaveEvents
                               => trace[k] = SaveEvent("ok")

C10_PersistedEqualsStore ==
    (MutationReturned \/ last_write = SaveEvent("ok"))
    => /\ file = save_doc(StoreOf(World))
       /\ file.kind = "object"
       /\ file.notes = [shape |-> "list", items |-> notes_data]
       /\ file.settings = [present |-> TRUE, val |-> settings]
       /\ file.legacy = EmptyDict

\* A store loaded from the legacy document, changed by a mutation whose
\* write succeeded after an earlier write had failed.
C10_Witness ==
    /\ MutationReturned
    /\ failures_left = 0
    /\ last_write = SaveEvent("ok")
    /\ settings["opacity"] = LegacyFull["opacity"]
    /\ \E n \in DOMAIN notes_data : notes_data[n].content = LegacyFull["content"]
    /\ file = save_doc(StoreOf(World))

\* C11: persist precedes broadcast.  For every mutation (create_new_note,
\* delete_note also of the last note, update_note_content, update_setting)
\* the file holds the document of the store at every signal delivery to a
\* window.
MutationCall ==
    /\ \E m \in Mutations : Ran(m)
    /\ EntryPoint \notin {"NoteManager.__init__", "StickyNote.__init__",
                          "open_popout"}

C11_PersistBeforeBroadcast ==
    MutationCall
    => \A k \in DOMAIN delivered :
          delivered[k].receivers >= 1 => delivered[k].persisted

\* C12: each delete_note call writes the file exactly once, also when it
\* removes the last note; that write holds the replacement note, and no
\* write stores an empty notes list.
Writes(tr) == Cardinality({k \in DOMAIN tr : tr[k] \in SaveEvents})

C12_DeleteWritesOnce ==
    (RanNext("delete_note") /\ ~RanNext("raise"))
    => /\ Writes(trace') = 1
       /\ file'.kind = "object"
       /\ file'.notes = [shape |-> "list", items |-> notes_data']
       /\ RanNext("create_new_note")
          => /\ Len(file'.notes.items) = 1
             /\ file'.notes.items[1].content = ""
             /\ file'.notes.items[1].id \notin NoteIds(notes_data)

C12_NoEmptyWrite ==
    (last_write # "none" /\ file.kind = "object") => file.notes.items # << >>

C12_SingleWriteOnDelete ==
    []C12_NoEmptyWrite /\ [][C12_DeleteWritesOnce]_vars

\* A window deleted the only note: one write, and the file holds the
\* replacement.
C12_Witness ==
    /\ EntryPoint = "StickyNote.delete_note"
    /\ Ran("create_new_note")
    /\ Writes(trace) = 1
    /\ Len(windows) >= 1
    /\ file.kind = "object"
    /\ file.notes.items = notes_data
    /\ Len(notes_data) = 1

\* C13: startup does not write.  When the note sequence is empty after
\* load, constructing the store and the first window adds exactly one blank
\* note and writes nothing; the file stays absent or unchanged until the
\* first create_new_note, delete_note, update_note_content or update_setting
\* call.
Startup == {"NoteManager.__init__", "StickyNote.__init__", "open_popout"}

\* The step is a call of one of the four mutations.
MutationCallNext ==
    /\ \E m \in Mutations : RanNext(m)
    /\ trace'[1] \notin Startup

\* load_data leaves the note sequence of a new store empty.
LoadsEmpty(doc) ==
    \/ doc.kind # "object"
    \/ doc.notes.shape = "list" /\ doc.notes.items = << >>

C13_NoWrite ==
    ~MutationCallNext
    => /\ Writes(trace') = 0
       /\ last_write' = last_write
       /\ \/ file' = file
          \/ file.kind = "absent" /\ file' = local_file   \* moved, not written

C13_OneBlankNote ==
    /\ (pc = "start" /\ LoadsEmpty(file'))
       => /\ pc' = "ready"
          /\ Len(notes_data') = 1
          /\ notes_data'[1].content = ""
          /\ uuid_count' = 1
    /\ (pc = "ready" /\ trace'[1] = "StickyNote.__init__")
       => notes_data' = notes_data /\ uuid_count' = uuid_count

C13_StartupDoesNotWrite == [][C13_NoWrite /\ C13_OneBlankNote]_vars

\* Started without a file, the first window is open on the one blank note
\* and there is still no file.
C13_Witness ==
    /\ EntryPoint = "StickyNote.__init__"
    /\ pc = "running"
    /\ file = AbsentDoc
    /\ local_file = AbsentDoc
    /\ last_write = "none"
    /\ Len(notes_data) = 1
    /\ notes_data[1].content = ""
    /\ Len(windows) = 1
    /\ windows[1].note_id = notes_data[1].id

\* C14: a write failure is absorbed.  The operation raises nothing, the
\* store holds the same state and the same notifications are emitted as when
\* the write succeeds, no retry is made, and the next mutation whose write
\* succeeds brings the file to the full current state of the store.
FailedWrites == SaveEvents \ {SaveEvent("ok")}

\* What a call leaves in memory and what it notified, the write aside.
Memory(w) ==
    [store |-> StoreOf(w), windows |-> w.windows, uuid_count |-> w.uuid_count,
     calls |-> SelectSeq(w.trace, LAMBDA e : e \notin SaveEvents),
     signals |-> [k \in DOMAIN w.delivered |->
                     <<w.delivered[k].signal, w.delivered[k].receivers,
                       w.delivered[k].notes>>]]

C14_SameAsWritten ==
    (ListStore /\ pc # "crashed")
    => \A io \in {"open_failed", "write_failed"}, now \in Times :
          /\ Memory(create_new_note(Enter("call"), TRUE, now, io).world)
                = Memory(create_new_note(Enter("call"), TRUE, now, "ok").world)
          /\ \A id \in Ids :
                Memory(delete_note(Enter("call"), id, now, io))
                    = Memory(delete_note(Enter("call"), id, now, "ok"))
          /\ \A id \in Ids, c \in Contents :
                Memory(update_note_content(Enter("call"), id, c, now, io))
                    = Memory(update_note_content(Enter("call"), id, c, now, "ok"))
          /\ \A key \in SettingKeys :
                Memory(update_setting(Enter("call"), key, DefaultSettings[key], io))
                    = Memory(update_setting(Enter("call"), key,
                                            DefaultSettings[key], "ok"))

C14_FailedStep ==
    (\E k \in DOMAIN trace' : trace'[k] \in FailedWrites)
    => /\ ~RanNext("raise")
       /\ pc' = pc
       /\ Writes(trace') = 1
       /\ file' \in {file, InvalidDoc}

C14_Recovery ==
    (last_write \in FailedWrites /\ last_write' = SaveEvent("ok"))
    => file' = save_doc(Store(notes_type', notes_data', settings'))

C14_WriteFailureAbsorbed ==
    []C14_SameAsWritten /\ [][C14_FailedStep /\ C14_Recovery]_vars

\* The write of an edit failed: the store and the window have the new
\* content "a", the signal was delivered, the file does not have it.
C14_Witness ==
    /\ EntryPoint = "on_text_changed"
    /\ last_write \in FailedWrites
    /\ Writes(trace) = 1
    /\ Ran("note_content_changed")
    /\ pc = "running"
    /\ \E i \in DOMAIN windows :
          /\ windows[i].text = "a"
          /\ get_note_content(notes_data, windows[i].note_id) = "a"
    /\ file # save_doc(StoreOf(World))

\* C15: settings are global.  After update_setting(key, value) called from
\* a window, settings[key] = value and every open window, the caller
\* included, has applied the store's pinned, opacity and theme_index; no two
\* windows show different settings.
Applied(win) ==
    /\ win.pin_checked = settings["pinned"]
    /\ win.slider = settings["opacity"]
    /\ win.theme_idx = settings["theme_index"]
    /\ win.bg_alpha = BgAlpha[settings["opacity"]]

C15_AllApplied == \A j \in DOMAIN windows : Applied(windows[j])

C15_SetsKey ==
    RanNext("update_setting")
    => /\ \A i \in DOMAIN windows :
             (trace'[1] = "toggle_pin" /\ WinTogglePin(i))
             => settings'["pinned"] = ~windows[i].pin_checked
       /\ \A i \in DOMAIN windows :
             (trace'[1] = "cycle_theme" /\ WinCycleTheme(i))
             => settings'["theme_index"]
                    = (settings["theme_index"] + 1) % NumThemes
       /\ \A i \in DOMAIN windows, v \in OpacityValues :
             (trace'[1] = "update_opacity_val" /\ WinUpdateOpacityVal(i, v))
             => settings'["opacity"] = v
       /\ \A j \in DOMAIN windows' :
             /\ windows'[j].pin_checked = settings'["pinned"]
             /\ windows'[j].slider = settings'["opacity"]
             /\ windows'[j].theme_idx = settings'["theme_index"]

C15_SettingsGlobal == []C15_AllApplied /\ [][C15_SetsKey]_vars

\* With two windows open one of them was pinned: both show the pin, and
\* the settings loaded from the file are otherwise unchanged.
C15_Witness ==
    /\ EntryPoint = "toggle_pin"
    /\ Len(windows) = 2
    /\ settings["pinned"]
    /\ windows[1].pin_checked /\ windows[2].pin_checked
    /\ windows[1].slider = windows[2].slider
    /\ windows[1].theme_idx = windows[2].theme_idx

\* C16: theme cycling wraps.  From any theme index in 0..N-1 (N = 5 themes)
\* each cycle_theme, from whichever window, sets theme_index to
\* (index + 1) mod N, the index stays in 0..N-1, and N consecutive calls
\* bring theme_index back to its value.
C16_Step ==
    trace'[1] = "cycle_theme"
    => /\ settings'["theme_index"] = (settings["theme_index"] + 1) % 5
       /\ setting_calls_left' = setting_calls_left - 1

C16_InRange == Constructed => settings["theme_index"] \in 0..4

\* Every cycle_theme call uses one unit of setting_calls_left, and nothing
\* else does here: N calls later the index is what it was.
C16_Returns ==
    \A t \in ThemeValues, k \in NumThemes..MaxThemeCalls :
        []((Constructed /\ settings["theme_index"] = t
                        /\ setting_calls_left = k)
           => [](setting_calls_left = k - NumThemes
                 => settings["theme_index"] = t))

C16_ThemeCycleWraps == []C16_InRange /\ [][C16_Step]_vars /\ C16_Returns

\* At least N calls were made, from either of two windows; the index has
\* wrapped to 0 and both windows show theme 0.
C16_Witness ==
    /\ EntryPoint = "cycle_theme"
    /\ setting_calls_left <= MaxThemeCalls - NumThemes
    /\ settings["theme_index"] = 0
    /\ Len(windows) = 2
    /\ windows[1].theme_idx = 0
    /\ windows[2].theme_idx = 0

\* C17: opacity curve.  For every control value v in 50..255 the alpha that
\* update_style computes is non-decreasing in v, 50 for v = 50 and 255 for
\* v = 255.
C17_Ends ==
    \A j \in DOMAIN windows :
        /\ windows[j].slider = 50 => windows[j].bg_alpha = 50
        /\ windows[j].slider = 255 => windows[j].bg_alpha = 255
        /\ windows[j].bg_alpha \in 50..255

\* Moving the slider up never lowers the alpha, moving it down never
\* raises it.
C17_Monotone ==
    trace'[1] = "update_opacity_val"
    => \A j \in DOMAIN windows :
          /\ windows[j].slider <= windows'[j].slider
             => windows[j].bg_alpha <= windows'[j].bg_alpha
          /\ windows[j].slider >= windows'[j].slider
             => windows[j].bg_alpha >= windows'[j].bg_alpha

C17_OpacityCurve == []C17_Ends /\ [][C17_Monotone]_vars

\* The slider was moved to 240: the alpha is 248 (int(50 + 205 * t ** 0.4)
\* for t = 190 / 205).
C17_Witness ==
    /\ EntryPoint = "update_opacity_val"
    /\ Len(windows) = 1
    /\ windows[1].slider = 240
    /\ windows[1].bg_alpha = 248
    /\ BgAlpha[51] = 74
    /\ BgAlpha[100] = 166
    /\ BgAlpha[254] = 254

\* C18: the active note is per-window state.  A window's note_id changes
\* only through its own switch_note or create_new_note, or through the
\* deletion of the note it shows; a create or switch in window A, and a
\* delete of a note window B does not show, leave B's note_id unchanged.
C18_OwnChange(j) ==
    \/ trace'[1] = "switch_note" /\ \E id \in Ids : WinSwitchNote(j, id)
    \/ trace'[1] = "StickyNote.create_new_note" /\ WinCreateNewNote(j)
    \/ /\ RanNext("delete_note")
       /\ windows[j].note_id \in NoteIds(notes_data)
       /\ windows[j].note_id \notin NoteIds(notes_data')

C18_Step ==
    IF trace'[1] = "closeEvent"
    THEN \E i \in DOMAIN windows : windows' = RemoveAt(windows, i)
    ELSE /\ Len(windows') >= Len(windows)
         /\ \A j \in DOMAIN windows :
               windows'[j].note_id # windows[j].note_id => C18_OwnChange(j)

C18_ActiveNotePerWindow == [][C18_Step]_vars

\* Window 1 created a note and shows it; window 2 still shows a note of the
\* file.
C18_Witness ==
    /\ EntryPoint = "StickyNote.create_new_note"
    /\ Len(windows) = 2
    /\ windows[1].note_id = notes_data[1].id
    /\ windows[1].note_id \in UuidIds
    /\ windows[2].note_id \in FileIds
    /\ windows[2].note_id \in NoteIds(notes_data)

\* C19: windows never hold a diverging copy.  Between operations, the text
\* in every open window's editor is get_note_content(note_id) of the store,
\* after any interleaving of typing, switch_note, create_new_note,
\* delete_note and pop-out creation across windows.
C19_TextIsStoreContent ==
    \A j \in DOMAIN windows :
        windows[j].text = get_note_content(notes_data, windows[j].note_id)

\* Two windows on different notes with different texts, one of them typed
\* into a note created in this session; the last action was a switch.
C19_Witness ==
    /\ EntryPoint = "switch_note"
    /\ Len(windows) = 2
    /\ windows[1].note_id # windows[2].note_id
    /\ windows[1].text # windows[2].text
    /\ \E n \in DOMAIN notes_data :
          notes_data[n].id \in UuidIds /\ notes_data[n].content = "a"
    /\ \A j \in DOMAIN windows :
          windows[j].text = get_note_content(notes_data, windows[j].note_id)

\* C20: whenever notes_updated is delivered (also the delivery in the middle
\* of delete_note, when the last note is being replaced) the store's note
\* sequence is non-empty; so no window takes the branch of
\* on_notes_list_updated that closes it because the store is empty.
C20_NonEmptyAtDelivery ==
    /\ \A k \in DOMAIN delivered :
          delivered[k].signal = "notes_updated" => delivered[k].notes >= 1
    /\ ~Ran("close")

\* A window deleted the only note: notes_updated reached the open windows
\* twice, inside create_new_note and at the end of delete_note, each time
\* with one note in the store.
C20_Witness ==
    /\ EntryPoint = "StickyNote.delete_note"
    /\ Ran("create_new_note")
    /\ Len(delivered) = 2
    /\ \A k \in DOMAIN delivered :
          /\ delivered[k].signal = "notes_updated"
          /\ delivered[k].receivers = 2
          /\ delivered[k].notes = 1
    /\ Len(windows) = 2

\* C21: each store operation changes only its target.
\*  - update_note_content(id, c) changes only the content and timestamp of the
\*    note with that id: no note's id, not the order, not the settings;
\*  - update_setting(key, v) changes only settings[key] and no note;
\*  - create_new_note and delete_note(id) leave the settings and every other
\*    note unchanged; delete_note(id) removes only the notes whose id is id
\*    and keeps the others in order.
\* (An implication A => B from a step to its effect is written B \/ ~A
\* below: the same formula, with the cheaper side evaluated first.)
C21_Returned(m) == RanNext(m) /\ ~RanNext("raise") /\ trace'[1] \notin Startup

C21_Update ==
    C21_Returned("update_note_content")
    => /\ settings' = settings
       /\ notes_type' = notes_type
       /\ Len(notes_data') = Len(notes_data)
       /\ \A n \in DOMAIN notes_data : notes_data'[n].id = notes_data[n].id
       /\ \A n \in DOMAIN notes_data :
             notes_data'[n] # notes_data[n]
             => /\ \A m \in DOMAIN notes_data :
                      m # n => notes_data'[m] = notes_data[m]
                /\ trace'[1] = "call"
                   => \A id \in Ids, c \in Contents :
                         \/ notes_data[n].id = id /\ notes_data'[n].content = c
                         \/ ~ManagerUpdateNoteContent(id, c)
                /\ trace'[1] = "on_text_changed"
                   => \A i \in DOMAIN windows, c \in Contents :
                         \/ /\ notes_data[n].id = windows[i].note_id
                            /\ notes_data'[n].content = c
                         \/ ~TextChanged(i, c)

C21_SettingKey ==
    CASE trace'[1] = "toggle_pin" -> "pinned"
      [] trace'[1] = "cycle_theme" -> "theme_index"
      [] OTHER -> "opacity"

C21_Setting ==
    C21_Returned("update_setting")
    => /\ notes_data' = notes_data
       /\ notes_type' = notes_type
       /\ DOMAIN settings' = DOMAIN settings
       /\ \A k \in DOMAIN settings :
             k # C21_SettingKey => settings'[k] = settings[k]

C21_Create ==
    (C21_Returned("create_new_note") /\ ~RanNext("delete_note"))
    => /\ settings' = settings
       /\ Len(notes_data') = Len(notes_data) + 1
       /\ \A n \in DOMAIN notes_data : notes_data'[n + 1] = notes_data[n]

C21_Kept(id) == SelectSeq(notes_data, LAMBDA n : n.id # id)

C21_Delete ==
    C21_Returned("delete_note")
    => /\ settings' = settings
       /\ \A id \in Ids :
             \/ IF C21_Kept(id) # << >>
                THEN notes_data' = C21_Kept(id)
                ELSE /\ Len(notes_data') = 1
                     /\ notes_data'[1].id \notin NoteIds(notes_data)
             \/ ~DeleteStep(id)

C21_OnlyTheTarget ==
    [][C21_Update /\ C21_Setting /\ C21_Create /\ C21_Delete]_vars

\* An edit in a window changed the second of three notes: it has the new
\* content and time, the notes around it are the blank note created in this
\* session and the untouched note of the file.
C21_Witness ==
    /\ EntryPoint = "on_text_changed"
    /\ Len(notes_data) = 3
    /\ notes_data[1].id \in UuidIds
    /\ notes_data[1].content = ""
    /\ notes_data[2] = Note(2, "a", 1)
    /\ notes_data[3] = Note(1, "a", 0)
    /\ \E i \in DOMAIN windows : windows[i].note_id = 2

====
